---- MODULE Spec2Model ----
(***************************************************************************)
(* Model of src/data/synthetic.py: generate_synthetic_ehr, the synthetic   *)
(* EHR record sampler.  One invocation is a process that walks through the *)
(* lines of the function: it seeds a generator, formats the patient ids,   *)
(* makes six vectorised draws from the generator and assembles the table.  *)
(*                                                                         *)
(* Numbers: a probability is an integer number of hundredths (One = 1.0),  *)
(* a raw normal variate is an integer number of quarters, a uniform draw   *)
(* in [0, 1) is u / RngMod.  The generator is a small linear congruential  *)
(* generator standing for numpy's PCG64: what the function relies on is    *)
(* that the stream is a deterministic function of the seed and of the      *)
(* number of values consumed.                                              *)
(***************************************************************************)
EXTENDS Integers, Sequences, FiniteSets, TLC

VARIABLES pc, args, rng, loc, out, index, ids

vars == <<pc, args, rng, loc, out, index, ids>>

(***************************************************************************)
(* Bounds of the model.                                                    *)
(***************************************************************************)
\* record counts run over -1 .. MaxN
MaxN == 2
\* seeds run over -1 .. MaxSeed
MaxSeed == 1
\* number of invocations that may be in flight at once
NumCalls == 2
\* width of the model generator's state, in bits
RngBits == 5
\* row indexes 0 .. MaxIdx (plus the powers of ten) are formatted as ids
MaxIdx == 11

(***************************************************************************)
(* Program constants.                                                      *)
(***************************************************************************)
\* the probability 1 of "1-readmission_rate", in hundredths
One == 100
\* the width of str(i).zfill(6)
IdWidth == 6

Calls == 1..NumCalls
RngMod == 2^RngBits

(***************************************************************************)
(* Patient ids: f"P{str(i).zfill(6)}".  A string is a sequence of          *)
(* one-character strings.                                                  *)
(***************************************************************************)
Digits == <<"0", "1", "2", "3", "4", "5", "6", "7", "8", "9">>

RECURSIVE Str(_)
Str(i) ==
    IF i < 10 THEN <<Digits[i + 1]>>
    ELSE Append(Str(i \div 10), Digits[(i % 10) + 1])

\* a bug: the padding goes to the right of the digits (ljust)
ZfillRight(s, width) ==
    IF Len(s) >= width THEN s
    ELSE s \o [j \in 1..(width - Len(s)) |-> "0"]

\* a bug: the result is cut to the last `width` characters
ZfillTruncating(s, width) ==
    IF Len(s) >= width THEN SubSeq(s, Len(s) - width + 1, Len(s))
    ELSE [j \in 1..(width - Len(s)) |-> "0"] \o s

\* str.zfill: pad on the left with zeros up to width; never shortens
Zfill(s, width) ==
    IF Len(s) >= width THEN s
    ELSE [j \in 1..(width - Len(s)) |-> "0"] \o s

PatientId(i) == <<"P">> \o Zfill(Str(i), IdWidth)

\* a bug: range(1, n_patients)
PatientIdsFromOne(n) ==
    IF n <= 1 THEN <<>> ELSE [k \in 1..(n - 1) |-> PatientId(k)]

\* [f"P{...}" for i in range(n_patients)]; range of a count <= 0 is empty
PatientIds(n) ==
    IF n <= 0 THEN <<>> ELSE [k \in 1..n |-> PatientId(k - 1)]

(***************************************************************************)
(* The generator.                                                          *)
(***************************************************************************)
\* np.random.default_rng(seed) raises ValueError for a negative seed
SeedValid(seed) == seed >= 0

\* np.random.default_rng(seed): the state a seed determines
SeedState(seed) == (5 * seed + 2) % RngMod

\* one step of the generator; its new state is also its output
Advance(s) == (13 * s + 5) % RngMod

RECURSIVE AdvanceN(_, _)
AdvanceN(s, k) == IF k <= 0 THEN s ELSE AdvanceN(Advance(s), k - 1)

\* the next n outputs of a generator in state s
Outputs(s, n) == IF n <= 0 THEN <<>> ELSE [i \in 1..n |-> AdvanceN(s, i)]

(***************************************************************************)
(* The distributions.                                                      *)
(***************************************************************************)
\* Generator.normal(loc, scale): loc + scale * z, in quarters; the standard
\* normal variate z of an output u is (u - RngMod / 2) / 4
Normal(mean, std, u) == 4 * mean + std * (u - RngMod \div 2)

\* a bug: only the upper bound is applied
ClipUpperOnly(x, lo, hi) == IF x > 4 * hi THEN 4 * hi ELSE x

\* ndarray.clip(lo, hi) of a value in quarters
Clip(x, lo, hi) ==
    IF x < 4 * lo THEN 4 * lo ELSE IF x > 4 * hi THEN 4 * hi ELSE x

\* ndarray.astype(int) of a value in quarters: truncation toward zero
AsInt(x) == IF x >= 0 THEN x \div 4 ELSE -((-x) \div 4)

RECURSIVE SumTo(_, _)
SumTo(p, k) == IF k = 0 THEN 0 ELSE SumTo(p, k - 1) + p[k]

\* a bug: the probabilities are not validated
ChoiceValidAlways(p) == TRUE

\* Generator.choice raises ValueError unless p is non-negative and sums to 1
ChoiceValid(p) ==
    /\ \A k \in 1..Len(p) : p[k] >= 0
    /\ SumTo(p, Len(p)) = One

\* Generator.choice(a, p=p) for one uniform draw u / RngMod: cdf = cumsum(p),
\* cdf /= cdf[-1], idx = cdf.searchsorted(u, side='right')
Choice(a, p, u) ==
    LET cdf(k) == SumTo(p, k)
        idx == Cardinality({k \in 1..Len(p) :
                               cdf(k) * RngMod <= u * cdf(Len(p))})
    IN  a[idx + 1]

\* rng.choice(a, n, p=p) on the outputs us
ChoiceN(a, p, us) == [i \in 1..Len(us) |-> Choice(a, p, us[i])]

\* rng.normal(65, 15, n).clip(18, 100).astype(int), on the outputs us
AgeColumn(us) ==
    [i \in 1..Len(us) |-> AsInt(Clip(Normal(65, 15, us[i]), 18, 100))]

GenderValues == <<"M", "F">>
GenderP == <<48, 52>>

RaceValues == <<"White", "Black", "Hispanic", "Asian", "Other">>
RaceP == <<60, 15, 15, 5, 5>>

OutcomeValues == <<0, 1>>

\* a bug: the two probabilities are swapped
OutcomePSwapped(rate) == <<rate, One - rate>>

\* p=[1-rate, rate]
OutcomeP(rate) == <<One - rate, rate>>

\* the defaults of readmission_rate, sepsis_rate, mortality_rate
DefaultRates == <<5, 2, 3>>

(***************************************************************************)
(* The table.  A table has its column names in order, one sequence of      *)
(* values per column, and its number of rows.                              *)
(***************************************************************************)
NoTable == [columns |-> <<>>, data |-> <<>>, nrows |-> 0 - 1]

NoOutcome == [kind |-> "none", table |-> NoTable]
Raised == [kind |-> "ValueError", table |-> NoTable]
Returned(t) == [kind |-> "table", table |-> t]

NoLocals ==
    [patient_ids |-> <<>>, age |-> <<>>, gender |-> <<>>, race |-> <<>>,
     readmission |-> <<>>, sepsis |-> <<>>, mortality |-> <<>>]

NoArgs ==
    [n_patients |-> 0, random_state |-> 0, readmission_rate |-> 0,
     sepsis_rate |-> 0, mortality_rate |-> 0]

\* a bug: the race column is left out of the table
FrameDictNoRace(l) ==
    << <<"patient_id", l.patient_ids>>, <<"age", l.age>>,
       <<"gender", l.gender>>,
       <<"readmission", l.readmission>>, <<"sepsis", l.sepsis>>,
       <<"mortality", l.mortality>> >>

\* the dict handed to pd.DataFrame, in insertion order
FrameDict(l) ==
    << <<"patient_id", l.patient_ids>>, <<"age", l.age>>,
       <<"gender", l.gender>>, <<"race", l.race>>,
       <<"readmission", l.readmission>>, <<"sepsis", l.sepsis>>,
       <<"mortality", l.mortality>> >>

\* pd.DataFrame(dict): raises ValueError unless all columns have one length
DataFrame(d) ==
    IF \E j \in 1..Len(d) : Len(d[j][2]) # Len(d[1][2])
    THEN Raised
    ELSE Returned([columns |-> [j \in 1..Len(d) |-> d[j][1]],
                   data    |-> [j \in 1..Len(d) |-> d[j][2]],
                   nrows   |-> Len(d[1][2])])

\* df[name]
Col(t, name) ==
    t.data[CHOOSE j \in 1..Len(t.columns) : t.columns[j] = name]

(***************************************************************************)
(* One invocation of generate_synthetic_ehr, line by line.  pc[c] is the   *)
(* line invocation c is about to execute, args[c] its arguments, loc[c]    *)
(* its local columns, out[c] what it returned or raised, and rng[g] the    *)
(* state of generator g.                                                   *)
(***************************************************************************)
\* a bug: one module-level generator used by every invocation
RngOfShared(c) == 1

\* rng is a local of the invocation: each invocation has its own generator
RngOf(c) == c

\* a bug: the generator is seeded by the first invocation only and kept
FreshRngKept(c, seed) ==
    IF pc[c] = "idle" THEN SeedState(seed) ELSE rng[RngOf(c)]

\* rng = np.random.default_rng(random_state), on every invocation
FreshRng(c, seed) == SeedState(seed)

Rates(a) == <<a.readmission_rate, a.sepsis_rate, a.mortality_rate>>

\* entry, the generator and the patient ids; a seed the generator refuses
\* ends the invocation at once, its frame holding no generator
Call(c, a) ==
    /\ pc[c] \in {"idle", "done", "raised"}
    /\ args' = [args EXCEPT ![c] = a]
    /\ IF ~SeedValid(a.random_state)
       THEN /\ pc' = [pc EXCEPT ![c] = "raised"]
            /\ out' = [out EXCEPT ![c] = Raised]
            /\ loc' = [loc EXCEPT ![c] = NoLocals]
            /\ rng' = [rng EXCEPT ![RngOf(c)] = 0]
       ELSE /\ rng' = [rng EXCEPT ![RngOf(c)] = FreshRng(c, a.random_state)]
            /\ loc' = [loc EXCEPT ![c] =
                          [NoLocals EXCEPT
                              !.patient_ids = PatientIds(a.n_patients)]]
            /\ out' = [out EXCEPT ![c] = NoOutcome]
            /\ pc' = [pc EXCEPT ![c] = "age"]
    /\ UNCHANGED <<index, ids>>

\* an exception leaves the function: the locals are gone, nothing is returned
Raise(c) ==
    /\ pc' = [pc EXCEPT ![c] = "raised"]
    /\ out' = [out EXCEPT ![c] = Raised]
    /\ loc' = [loc EXCEPT ![c] = NoLocals]
    /\ UNCHANGED <<args, rng, index, ids>>

\* age = rng.normal(65, 15, n_patients).clip(18, 100).astype(int);
\* a negative size raises ValueError
DrawAge(c) ==
    /\ pc[c] = "age"
    /\ LET n == args[c].n_patients
           s == rng[RngOf(c)]
       IN  IF n < 0
           THEN Raise(c)
           ELSE /\ loc' = [loc EXCEPT ![c].age = AgeColumn(Outputs(s, n))]
                /\ rng' = [rng EXCEPT ![RngOf(c)] = AdvanceN(s, n)]
                /\ pc' = [pc EXCEPT ![c] = "gender"]
                /\ UNCHANGED <<args, out, index, ids>>

\* field = rng.choice(values, n_patients, p=p)
DrawChoice(c, field, values, p, next) ==
    LET n == args[c].n_patients
        s == rng[RngOf(c)]
    IN  IF n < 0 \/ ~ChoiceValid(p)
        THEN Raise(c)
        ELSE /\ loc' = [loc EXCEPT ![c][field] =
                           ChoiceN(values, p, Outputs(s, n))]
             /\ rng' = [rng EXCEPT ![RngOf(c)] = AdvanceN(s, n)]
             /\ pc' = [pc EXCEPT ![c] = next]
             /\ UNCHANGED <<args, out, index, ids>>

DrawGender(c) ==
    /\ pc[c] = "gender"
    /\ DrawChoice(c, "gender", GenderValues, GenderP, "race")

DrawRace(c) ==
    /\ pc[c] = "race"
    /\ DrawChoice(c, "race", RaceValues, RaceP, "readmission")

DrawReadmission(c) ==
    /\ pc[c] = "readmission"
    /\ DrawChoice(c, "readmission", OutcomeValues,
                  OutcomeP(args[c].readmission_rate), "sepsis")

DrawSepsis(c) ==
    /\ pc[c] = "sepsis"
    /\ DrawChoice(c, "sepsis", OutcomeValues,
                  OutcomeP(args[c].sepsis_rate), "mortality")

DrawMortality(c) ==
    /\ pc[c] = "mortality"
    /\ DrawChoice(c, "mortality", OutcomeValues,
                  OutcomeP(args[c].mortality_rate), "frame")

\* df = pd.DataFrame({...}); return df
BuildFrame(c) ==
    /\ pc[c] = "frame"
    /\ LET r == DataFrame(FrameDict(loc[c]))
       IN  /\ out' = [out EXCEPT ![c] = r]
           /\ pc' = [pc EXCEPT ![c] =
                        IF r.kind = "table" THEN "done" ELSE "raised"]
    /\ loc' = [loc EXCEPT ![c] = NoLocals]
    /\ UNCHANGED <<args, rng, index, ids>>

\* the function as a whole, run alone from entry to exit
generate_synthetic_ehr(a) ==
    LET n  == a.n_patients
        s0 == SeedState(a.random_state)
        s1 == AdvanceN(s0, n)
        s2 == AdvanceN(s1, n)
        s3 == AdvanceN(s2, n)
        s4 == AdvanceN(s3, n)
        s5 == AdvanceN(s4, n)
    IN  IF ~SeedValid(a.random_state) \/ n < 0 THEN Raised
        ELSE IF \E k \in 1..3 : ~ChoiceValid(OutcomeP(Rates(a)[k]))
        THEN Raised
        ELSE DataFrame(FrameDict(
                [patient_ids |-> PatientIds(n),
                 age         |-> AgeColumn(Outputs(s0, n)),
                 gender      |-> ChoiceN(GenderValues, GenderP, Outputs(s1, n)),
                 race        |-> ChoiceN(RaceValues, RaceP, Outputs(s2, n)),
                 readmission |-> ChoiceN(OutcomeValues,
                                    OutcomeP(a.readmission_rate), Outputs(s3, n)),
                 sepsis      |-> ChoiceN(OutcomeValues,
                                    OutcomeP(a.sepsis_rate), Outputs(s4, n)),
                 mortality   |-> ChoiceN(OutcomeValues,
                                    OutcomeP(a.mortality_rate), Outputs(s5, n))]))

(***************************************************************************)
(* The inputs.                                                             *)
(***************************************************************************)
\* rates below 0, at 0, inside, at 1 and above 1
RateInputs == {0 - 1, 0, 50, One, One + 1}

SeqArgs ==
    [n_patients : (0 - 1)..MaxN, random_state : (0 - 1)..MaxSeed,
     readmission_rate : RateInputs, sepsis_rate : RateInputs,
     mortality_rate : RateInputs]

\* concurrent callers leave the three rates at their defaults
ConcRates == {DefaultRates}

ConcArgs ==
    {[n_patients |-> n, random_state |-> sd, readmission_rate |-> r[1],
      sepsis_rate |-> r[2], mortality_rate |-> r[3]] :
        n \in 1..MaxN, sd \in 0..MaxSeed, r \in ConcRates}

\* the row indexes whose ids are formatted: the small ones and those around
\* every power of ten up to one digit more than the width
IdIndexes ==
    (0..MaxIdx) \cup {10^k + d : k \in 1..(IdWidth + 1), d \in {0 - 1, 0, 1}}

(***************************************************************************)
(* Specifications.                                                         *)
(***************************************************************************)
Init ==
    /\ pc = [c \in Calls |-> "idle"]
    /\ args = [c \in Calls |-> NoArgs]
    /\ rng = [c \in Calls |-> 0]
    /\ loc = [c \in Calls |-> NoLocals]
    /\ out = [c \in Calls |-> NoOutcome]
    /\ index = <<0, 0>>
    /\ ids = <<>>

\* one caller, invoking the function again and again with any arguments
Next ==
    \/ \E a \in SeqArgs : Call(1, a)
    \/ DrawAge(1)
    \/ DrawGender(1)
    \/ DrawRace(1)
    \/ DrawReadmission(1)
    \/ DrawSepsis(1)
    \/ DrawMortality(1)
    \/ BuildFrame(1)

Spec == Init /\ [][Next]_vars

\* several callers whose invocations interleave line by line
NextConc ==
    \/ \E c \in Calls, a \in ConcArgs : Call(c, a)
    \/ \E c \in Calls : DrawAge(c)
    \/ \E c \in Calls : DrawGender(c)
    \/ \E c \in Calls : DrawRace(c)
    \/ \E c \in Calls : DrawReadmission(c)
    \/ \E c \in Calls : DrawSepsis(c)
    \/ \E c \in Calls : DrawMortality(c)
    \/ \E c \in Calls : BuildFrame(c)

SpecConc == Init /\ [][NextConc]_vars

\* the id expression alone, applied to two row indexes
InitId ==
    /\ pc = [c \in Calls |-> "idle"]
    /\ args = [c \in Calls |-> NoArgs]
    /\ rng = [c \in Calls |-> 0]
    /\ loc = [c \in Calls |-> NoLocals]
    /\ out = [c \in Calls |-> NoOutcome]
    /\ index \in IdIndexes \X IdIndexes
    /\ ids = <<>>

FormatIds ==
    /\ ids = <<>>
    /\ ids' = <<PatientId(index[1]), PatientId(index[2])>>
    /\ UNCHANGED <<pc, args, rng, loc, out, index>>

SpecId == InitId /\ [][FormatIds]_vars

(***************************************************************************)
(* Properties.                                                             *)
(***************************************************************************)
Terminated(c) == pc[c] \in {"done", "raised"}

ValidRates(a) == \A k \in 1..3 : Rates(a)[k] >= 0 /\ Rates(a)[k] <= One

ColumnNames ==
    <<"patient_id", "age", "gender", "race", "readmission", "sepsis",
      "mortality">>

IsDigit(ch) == \E d \in 1..10 : Digits[d] = ch

DigitValue(ch) == (CHOOSE d \in 1..10 : Digits[d] = ch) - 1

RECURSIVE DecimalValue(_)
DecimalValue(s) ==
    IF Len(s) = 0 THEN 0
    ELSE 10 * DecimalValue(SubSeq(s, 1, Len(s) - 1)) + DigitValue(s[Len(s)])

\* the raw normal variates behind the age column of an invocation
RawAges(a) ==
    LET us == Outputs(SeedState(a.random_state), a.n_patients)
    IN  [i \in 1..Len(us) |-> Normal(65, 15, us[i])]

\* C1 as claimed: an invocation with a record count n >= 1, any seed and
\* rates in [0, 1] returns a table with exactly n rows.
C1_RowCountAnySeed ==
    \A c \in Calls :
        (Terminated(c) /\ args[c].n_patients >= 1 /\ ValidRates(args[c])) =>
            /\ pc[c] = "done"
            /\ out[c].kind = "table"
            /\ out[c].table.nrows = args[c].n_patients

\* C1 as amended: an invocation with a record count n >= 1, a seed >= 0 and
\* rates in [0, 1] returns a table, and the table has exactly n rows (every
\* column has n values).
C1_RowCount ==
    \A c \in Calls :
        (/\ Terminated(c)
         /\ args[c].n_patients >= 1
         /\ args[c].random_state >= 0
         /\ ValidRates(args[c])) =>
            /\ pc[c] = "done"
            /\ out[c].kind = "table"
            /\ out[c].table.nrows = args[c].n_patients
            /\ \A j \in 1..Len(out[c].table.data) :
                   Len(out[c].table.data[j]) = args[c].n_patients

C1_Witness ==
    \E c \in Calls :
        /\ pc[c] = "done"
        /\ args[c].n_patients = 2
        /\ out[c].table.nrows = 2

\* C2: two invocations with the same record count, seed and rates return
\* equal tables, whatever other invocations ran before or between them.
C2_Determinism ==
    \A c \in Calls : \A d \in Calls :
        (pc[c] = "done" /\ pc[d] = "done" /\ args[c] = args[d]) =>
            out[c] = out[d]

C2_Witness ==
    \E c \in Calls : \E d \in Calls :
        /\ c # d
        /\ pc[c] = "done" /\ pc[d] = "done"
        /\ args[c] = args[d]
        /\ args[c].n_patients >= 2
        /\ out[c].kind = "table"
        /\ out[c].table = out[d].table

\* C3: every age of a returned table is an integer between 18 and 100,
\* also where the normal draw fell outside that range.
C3_AgeRange ==
    \A c \in Calls :
        pc[c] = "done" =>
            \A i \in 1..out[c].table.nrows :
                Col(out[c].table, "age")[i] \in 18..100

C3_Witness ==
    \E c \in Calls :
        /\ pc[c] = "done"
        /\ \E i \in 1..out[c].table.nrows :
               /\ RawAges(args[c])[i] < 4 * 18
               /\ Col(out[c].table, "age")[i] = 18
        /\ \E i \in 1..out[c].table.nrows :
               /\ RawAges(args[c])[i] % 4 # 0
               /\ Col(out[c].table, "age")[i] > 18

\* C4: the patient ids of two different row indexes are different.
C4_UniqueIds ==
    (ids # <<>> /\ index[1] # index[2]) => ids[1] # ids[2]

C4_Witness ==
    /\ ids # <<>>
    /\ index[1] = 0
    /\ index[2] = 10^IdWidth
    /\ ids[1] # ids[2]

\* C5 as claimed: the patient id of every row index is "P" followed by
\* exactly 6 digits, the zero-padded decimal form of the index (7 characters).
C5_FixedWidth ==
    ids # <<>> =>
        \A k \in 1..2 :
            /\ Len(ids[k]) = IdWidth + 1
            /\ ids[k][1] = "P"
            /\ \A j \in 2..Len(ids[k]) : IsDigit(ids[k][j])
            /\ DecimalValue(Tail(ids[k])) = index[k]

\* C5 as amended: the patient id of row index i is "P" followed by the
\* decimal form of i; for i < 10^6 it is zero-padded to exactly 6 digits
\* (7 characters), for i >= 10^6 it is unpadded and longer than 7 characters.
C5_ZeroPadded ==
    ids # <<>> =>
        \A k \in 1..2 :
            /\ ids[k][1] = "P"
            /\ \A j \in 2..Len(ids[k]) : IsDigit(ids[k][j])
            /\ DecimalValue(Tail(ids[k])) = index[k]
            /\ index[k] < 10^IdWidth => Len(ids[k]) = IdWidth + 1
            /\ index[k] >= 10^IdWidth =>
                   (Len(ids[k]) > IdWidth + 1 /\ ids[k][2] # "0")

C5_Witness ==
    /\ ids # <<>>
    /\ index[1] = 10^IdWidth - 1
    /\ index[2] = 10^IdWidth
    /\ Len(ids[1]) = IdWidth + 1
    /\ Len(ids[2]) = IdWidth + 2

C7_NonPositiveCountFails ==
    \A c \in Calls :
        (Terminated(c) /\ args[c].n_patients <= 0) =>
            /\ pc[c] = "raised"
            /\ out[c].kind = "ValueError"

\* C8: an invocation with n >= 1 and any of the three rates outside [0, 1]
\* fails with an error and returns no table, not even a partial one.
C8_InvalidRateFails ==
    \A c \in Calls :
        /\ (Terminated(c) /\ args[c].n_patients >= 1 /\ ~ValidRates(args[c]))
               => (pc[c] = "raised" /\ out[c] = Raised)
        /\ (pc[c] = "frame" /\ args[c].n_patients >= 1) => ValidRates(args[c])

C8_Witness ==
    \E c \in Calls :
        /\ pc[c] = "raised"
        /\ args[c].n_patients >= 1
        /\ args[c].readmission_rate \in 0..One
        /\ args[c].sepsis_rate \in 0..One
        /\ args[c].mortality_rate > One
        /\ out[c] = Raised

\* C9: in a returned table every gender is M or F, every race one of the
\* five labels, every outcome flag 0 or 1; a rate of 0 gives a column of
\* zeros and a rate of 1 a column of ones.
C9_Domains ==
    \A c \in Calls :
        pc[c] = "done" =>
            LET t == out[c].table
                flags(name, rate) ==
                    \A i \in 1..t.nrows :
                        /\ Col(t, name)[i] \in {0, 1}
                        /\ rate = 0 => Col(t, name)[i] = 0
                        /\ rate = One => Col(t, name)[i] = 1
            IN  /\ \A i \in 1..t.nrows :
                       /\ Col(t, "gender")[i] \in {"M", "F"}
                       /\ Col(t, "race")[i] \in
                              {"White", "Black", "Hispanic", "Asian", "Other"}
                /\ flags("readmission", args[c].readmission_rate)
                /\ flags("sepsis", args[c].sepsis_rate)
                /\ flags("mortality", args[c].mortality_rate)

C9_Witness ==
    \E c \in Calls :
        /\ pc[c] = "done"
        /\ args[c].n_patients = 2
        /\ args[c].readmission_rate = 0
        /\ args[c].sepsis_rate = One
        /\ Col(out[c].table, "readmission") = <<0, 0>>
        /\ Col(out[c].table, "sepsis") = <<1, 1>>
        /\ args[c].mortality_rate = 50
        /\ \E i \in 1..2 : Col(out[c].table, "mortality")[i] = 1
        /\ \E i \in 1..2 : Col(out[c].table, "gender")[i] = "M"
        /\ \E i \in 1..2 : Col(out[c].table, "gender")[i] = "F"

\* C10: whatever invocations run concurrently and however their lines
\* interleave, an invocation ends as it ends when run alone, also when it
\* follows an earlier invocation of the same caller.
C10_Isolation ==
    \A c \in Calls :
        Terminated(c) => out[c] = generate_synthetic_ehr(args[c])

C10_Witness ==
    \E c \in Calls : \E d \in Calls :
        /\ c # d
        /\ pc[c] = "done"
        /\ pc[d] = "sepsis"
        /\ args[c].random_state # args[d].random_state
        /\ args[c].n_patients # args[d].n_patients
        /\ out[c] = generate_synthetic_ehr(args[c])

====
